---- MODULE Spec2Model ----
(***************************************************************************)
(* Model of neubot_runtime/utils_net.py: listen(), connect() and           *)
(* isconnected().  The operating system (resolver, socket calls) is the    *)
(* environment: every outcome of a system call is chosen                   *)
(* nondeterministically when the call is made.                             *)
(***************************************************************************)
EXTENDS Integers, Sequences, FiniteSets, TLC

(* ---------------------------- bounds ---------------------------------- *)

\* longest resolver answer given to listen()
MaxListen == 3

\* longest resolver answer given to connect()
MaxConnect == 4

(* ------------------------ program constants --------------------------- *)

AF_INET == 2
AF_INET6 == 10

EAGAIN == 11
EWOULDBLOCK == 11
EINPROGRESS == 115
ECONNREFUSED == 111
ENOTCONN == 107
EINVAL == 22
ECONNRESET == 104

\* connect() returning no socket
None == 0

Families == {AF_INET, AF_INET6}

VARIABLES
    op,          \* the function being run: "none", "listen", "connect", "isconnected"
    pc,          \* "idle", "listen", "connect", "returned", "raised"
    prefer_ipv6, \* connect()'s second argument
    resolved,    \* what getaddrinfo returned, in the resolver's order
    addrinfo,    \* local addrinfo (sorted in place)
    idx,         \* position of the for loop in addrinfo
    created,     \* every socket object created so far, by id
    sock,        \* local sock of the running frame (0: unbound)
    sockets,     \* listen(): local sockets, and its return value
    ret_sock,    \* connect(): return value (None or a socket id)
    ret_bool,    \* isconnected(): "unset", "True", "False"
    attempts,    \* candidates tried so far with what the system answered
    probe,       \* isconnected(): what getpeername and recv answered
    log          \* records handed to logging

vars == <<op, pc, prefer_ipv6, resolved, addrinfo, idx, created, sock,
          sockets, ret_sock, ret_bool, attempts, probe, log>>

(* ----------------------------- helpers -------------------------------- *)

Range(s) == {s[i] : i \in 1..Len(s)}

RECURSIVE Reverse(_)
Reverse(s) == IF s = <<>> THEN <<>> ELSE Append(Reverse(Tail(s)), Head(s))

Rec(level, msg, arg) == [level |-> level, msg |-> msg, arg |-> arg]

\* resolver answers: the i-th entry carries sockaddr i
RECURSIVE AinfoSeqs(_)
AinfoSeqs(n) ==
    IF n = 0 THEN {<<>>}
    ELSE LET shorter == AinfoSeqs(n - 1)
         IN  shorter \cup
             {Append(s, [family |-> f, addr |-> n]) :
                  s \in {t \in shorter : Len(t) = n - 1}, f \in Families}

(* --------------------------- utils_net.py ----------------------------- *)

INPROGRESSNoEinprogress == {0, EWOULDBLOCK, EAGAIN}

INPROGRESS == {0, EINPROGRESS, EWOULDBLOCK, EAGAIN}

COMPARE_AF(family) == IF family = AF_INET THEN 1 ELSE 2

addrinfo_key(ainfo) == COMPARE_AF(ainfo.family)

\* list.sort() is stable: x goes behind every element whose key is not larger
RECURSIVE SortInsert(_, _)
SortInsert(x, s) ==
    IF s = <<>> THEN <<x>>
    ELSE IF addrinfo_key(x) < addrinfo_key(Head(s)) THEN <<x>> \o s
    ELSE <<Head(s)>> \o SortInsert(x, Tail(s))

RECURSIVE SortAscending(_)
SortAscending(s) ==
    IF s = <<>> THEN <<>>
    ELSE SortInsert(s[Len(s)], SortAscending(SubSeq(s, 1, Len(s) - 1)))

AddrinfoSortUnstable(s, reverse) ==
    IF reverse THEN Reverse(SortAscending(s)) ELSE SortAscending(s)

\* addrinfo.sort(key=addrinfo_key, reverse=...): a reverse sort keeps the
\* original order of elements with equal keys
AddrinfoSort(s, reverse) ==
    IF reverse THEN Reverse(SortAscending(Reverse(s))) ELSE SortAscending(s)

ListenReverseFalse == FALSE

ListenReverse == TRUE

(* ------------------------------ state --------------------------------- *)

Init ==
    /\ op = "none"
    /\ pc = "idle"
    /\ prefer_ipv6 = FALSE
    /\ resolved = <<>>
    /\ addrinfo = <<>>
    /\ idx = 0
    /\ created = <<>>
    /\ sock = 0
    /\ sockets = <<>>
    /\ ret_sock = None
    /\ ret_bool = "unset"
    /\ attempts = <<>>
    /\ probe = <<>>
    /\ log = <<>>

\* what getaddrinfo can do: answer, raise socket.error (gaierror), or raise
\* something else (UnicodeError, TypeError, OverflowError on a bad argument)
ResolverOutcomes == {"ok", "socket.error", "other exception"}

NewSocket(ainfo) ==
    [family |-> ainfo.family, addr |-> ainfo.addr, open |-> TRUE,
     reuseaddr |-> FALSE, v6only |-> FALSE, nonblocking |-> FALSE,
     bound |-> FALSE, listening |-> FALSE, connecting |-> FALSE]

(* ------------------------------ listen -------------------------------- *)

\* The system's answers for one candidate of listen().  fail is the call
\* that raises (socket.error or anything else) among socket(), the
\* SO_REUSEADDR setsockopt, bind() and listen(); v6only is what setting
\* IPV6_V6ONLY does when it is reached: it works, the constant is missing
\* from the socket module (AttributeError), or setsockopt raises socket.error.
\* Where setsockopt rejects IPV6_V6ONLY, bind() and listen() are taken to
\* work if they are called.
ListenEnv(family) ==
    {e \in [fail : {"none", "socket", "reuseaddr", "bind", "listen"},
            v6only : {"ok", "AttributeError", "socket.error"}] :
        /\ e.v6only # "ok" =>
              (family = AF_INET6 /\ e.fail \notin {"socket", "reuseaddr"})
        /\ e.v6only = "socket.error" => e.fail = "none"}

\* Statements of the try block, in order:
\*   1 socket()  2 SO_REUSEADDR  3 IPV6_V6ONLY  4 setblocking  5 bind
\*   6 listen    7 sockets.append
\* ListenFailStage is the statement whose exception reaches the candidate's
\* except clauses, 0 if none does.
ListenFailStageNoListenCheck(family, e) ==
    IF e.fail = "socket" THEN 1
    ELSE IF e.fail = "reuseaddr" THEN 2
    ELSE IF family = AF_INET6 /\ e.v6only = "socket.error" THEN 3
    ELSE IF e.fail = "bind" THEN 5
    ELSE 0

ListenFailStage(family, e) ==
    IF e.fail = "socket" THEN 1
    ELSE IF e.fail = "reuseaddr" THEN 2
    ELSE IF family = AF_INET6 /\ e.v6only = "socket.error" THEN 3
    ELSE IF e.fail = "bind" THEN 5
    ELSE IF e.fail = "listen" THEN 6
    ELSE 0

\* statement n of the try block completed
Done(n, failstage) == failstage = 0 \/ failstage > n

ListenSocket(ainfo, e) ==
    LET fs == ListenFailStage(ainfo.family, e)
    IN  [NewSocket(ainfo) EXCEPT
            !.reuseaddr = Done(2, fs),
            !.v6only = ainfo.family = AF_INET6 /\ e.v6only = "ok" /\ Done(3, fs),
            !.nonblocking = Done(4, fs),
            !.bound = Done(5, fs),
            !.listening = Done(6, fs)]

ListenCall(outcome, answer) ==
    /\ pc = "idle"
    /\ outcome # "ok" => answer = <<>>
    /\ op' = "listen"
    /\ resolved' = IF outcome = "ok" THEN answer ELSE <<>>
    /\ sockets' = <<>>
    /\ IF outcome = "socket.error"
       THEN /\ pc' = "returned"
            /\ addrinfo' = <<>>
            /\ idx' = 0
            /\ log' = log \o <<Rec("debug", "try listen", 0),
                               Rec("error", "getaddrinfo failed", 0)>>
       ELSE IF outcome = "other exception"
       THEN /\ pc' = "raised"
            /\ addrinfo' = <<>>
            /\ idx' = 0
            /\ log' = Append(log, Rec("debug", "try listen", 0))
       ELSE /\ pc' = "listen"
            /\ addrinfo' = AddrinfoSort(answer, ListenReverse)
            /\ idx' = 1
            /\ log' = log \o <<Rec("debug", "try listen", 0),
                               Rec("debug", "getaddrinfo returned:", 0)>>
                          \o [i \in 1..Len(answer) |->
                                Rec("debug", "    - ainfo", answer[i].addr)]
    /\ UNCHANGED <<prefer_ipv6, created, sock, ret_sock, ret_bool, attempts, probe>>

ListenTry(e) ==
    /\ pc = "listen"
    /\ idx <= Len(addrinfo)
    /\ LET ainfo == addrinfo[idx]
           fs == ListenFailStage(ainfo.family, e)
           new == Len(created) + 1
       IN  /\ e \in ListenEnv(ainfo.family)
           /\ attempts' = Append(attempts, [ainfo |-> ainfo, env |-> e,
                                            sock |-> IF Done(1, fs) THEN new ELSE 0])
           /\ IF Done(1, fs)
              THEN /\ created' = Append(created, ListenSocket(ainfo, e))
                   /\ sock' = new
              ELSE UNCHANGED <<created, sock>>
           /\ sockets' = IF fs = 0 THEN Append(sockets, new) ELSE sockets
           /\ log' = log \o <<Rec("debug", "try ainfo", ainfo.addr)>>
                         \o IF fs = 0
                            THEN <<Rec("debug", "listen... ok", new)>>
                            ELSE <<Rec("warning", "listen... error", 0)>>
    /\ idx' = idx + 1
    /\ UNCHANGED <<op, pc, prefer_ipv6, resolved, addrinfo, ret_sock,
                   ret_bool, probe>>

ListenReturn ==
    /\ pc = "listen"
    /\ idx > Len(addrinfo)
    /\ pc' = "returned"
    /\ sock' = 0
    /\ log' = IF sockets = <<>>
              THEN Append(log, Rec("error", "all listen attempts failed", 0))
              ELSE log
    /\ UNCHANGED <<op, prefer_ipv6, resolved, addrinfo, idx, created,
                   sockets, ret_sock, ret_bool, attempts, probe>>

(* ------------------------------ connect ------------------------------- *)

\* The system's answers for one candidate of connect(): socket() raises, or
\* connect_ex raises, or connect_ex returns code
ConnectCodes == {0, EINPROGRESS, EWOULDBLOCK, EAGAIN, ECONNREFUSED}

ConnectEnv ==
    {e \in [fail : {"none", "socket", "connect_ex"}, code : ConnectCodes] :
        e.fail # "none" => e.code = 0}

ConnectInitiatedOnlyZero(e) == e.fail = "none" /\ e.code = 0

\* the try block reaches "return sock"
ConnectInitiated(e) == e.fail = "none" /\ e.code \in INPROGRESS

ConnectSocket(ainfo, e) ==
    [NewSocket(ainfo) EXCEPT
        !.nonblocking = TRUE,
        !.connecting = e.fail = "none"]

ConnectCall(prefer, outcome, answer) ==
    /\ pc = "idle"
    /\ outcome # "ok" => answer = <<>>
    /\ op' = "connect"
    /\ prefer_ipv6' = prefer
    /\ resolved' = IF outcome = "ok" THEN answer ELSE <<>>
    /\ ret_sock' = None
    /\ IF outcome = "socket.error"
       THEN /\ pc' = "returned"
            /\ addrinfo' = <<>>
            /\ idx' = 0
            /\ log' = log \o <<Rec("debug", "try connect to", 0),
                               Rec("error", "getaddrinfo failed", 0)>>
       ELSE IF outcome = "other exception"
       THEN /\ pc' = "raised"
            /\ addrinfo' = <<>>
            /\ idx' = 0
            /\ log' = Append(log, Rec("debug", "try connect to", 0))
       ELSE /\ pc' = "connect"
            /\ addrinfo' = AddrinfoSort(answer, prefer)
            /\ idx' = 1
            /\ log' = log \o <<Rec("debug", "try connect to", 0),
                               Rec("debug", "getaddrinfo returned:", 0)>>
                          \o [i \in 1..Len(answer) |->
                                Rec("debug", "    - ainfo", answer[i].addr)]
    /\ UNCHANGED <<created, sock, sockets, ret_bool, attempts, probe>>

ConnectTry(e) ==
    /\ pc = "connect"
    /\ idx <= Len(addrinfo)
    /\ e \in ConnectEnv
    /\ LET ainfo == addrinfo[idx]
           new == Len(created) + 1
           made == e.fail # "socket"
       IN  /\ attempts' = Append(attempts, [ainfo |-> ainfo, env |-> e,
                                            sock |-> IF made THEN new ELSE 0])
           /\ IF made
              THEN created' = Append(created, ConnectSocket(ainfo, e))
              ELSE UNCHANGED created
           /\ IF ConnectInitiated(e)
              THEN /\ pc' = "returned"
                   /\ ret_sock' = new
                   /\ sock' = 0
                   /\ UNCHANGED idx
                   /\ log' = log \o <<Rec("debug", "try ainfo", ainfo.addr),
                                      Rec("debug", "connect... in progress", new)>>
              ELSE /\ pc' = "connect"
                   /\ ret_sock' = None
                   /\ sock' = IF made THEN new ELSE sock
                   /\ idx' = idx + 1
                   /\ log' = log \o <<Rec("debug", "try ainfo", ainfo.addr),
                                      Rec("warning", "connect... error", 0)>>
    /\ UNCHANGED <<op, prefer_ipv6, resolved, addrinfo, sockets,
                   ret_bool, probe>>

ConnectExhausted ==
    /\ pc = "connect"
    /\ idx > Len(addrinfo)
    /\ pc' = "returned"
    /\ ret_sock' = None
    /\ sock' = 0
    /\ log' = Append(log, Rec("error", "all connect attempts failed", 0))
    /\ UNCHANGED <<op, prefer_ipv6, resolved, addrinfo, idx, created,
                   sockets, ret_bool, attempts, probe>>

(* ---------------------------- isconnected ----------------------------- *)

\* sock.getpeername(): 0 when it answers, else the errno of the socket.error
PeernameOutcomes == {0, ENOTCONN, EINVAL, ECONNRESET}

\* sock.recv(1024): the errno of the socket.error, or err 0 and the number
\* of bytes returned
RecvOutcomes ==
    {[err |-> 0, nbytes |-> 0], [err |-> 0, nbytes |-> 1024],
     [err |-> ECONNREFUSED, nbytes |-> 0]}

\* MacOSX getpeername() fails with EINVAL
NotConnectedErrnos == {ENOTCONN, EINVAL}

IsconnectedResultEmptyReadIsFalse(gp, rv) ==
    IF gp = 0 THEN [ret |-> "True", recv |-> FALSE, reason |-> 0]
    ELSE IF gp \notin NotConnectedErrnos
    THEN [ret |-> "False", recv |-> FALSE, reason |-> gp]
    ELSE IF rv.err # 0 \/ rv.nbytes = 0
    THEN [ret |-> "False", recv |-> TRUE, reason |-> rv.err]
    ELSE [ret |-> "RuntimeError", recv |-> TRUE, reason |-> 0]

IsconnectedResultTrustsEinval(gp, rv) ==
    IF gp = 0 \/ gp = EINVAL THEN [ret |-> "True", recv |-> FALSE, reason |-> 0]
    ELSE IF gp \notin NotConnectedErrnos
    THEN [ret |-> "False", recv |-> FALSE, reason |-> gp]
    ELSE IF rv.err # 0
    THEN [ret |-> "False", recv |-> TRUE, reason |-> rv.err]
    ELSE [ret |-> "RuntimeError", recv |-> TRUE, reason |-> 0]

\* ret: what isconnected does (returns True or False, or raises
\* RuntimeError); recv: whether sock.recv was called; reason: the errno in
\* the error record (0: nothing logged at error level)
IsconnectedResult(gp, rv) ==
    IF gp = 0 THEN [ret |-> "True", recv |-> FALSE, reason |-> 0]
    ELSE IF gp \notin NotConnectedErrnos
    THEN [ret |-> "False", recv |-> FALSE, reason |-> gp]
    ELSE IF rv.err # 0
    THEN [ret |-> "False", recv |-> TRUE, reason |-> rv.err]
    ELSE [ret |-> "RuntimeError", recv |-> TRUE, reason |-> 0]

\* isconnected(endpoint, sock) on a socket the caller holds; what the socket
\* answers is the system's choice
Isconnected(gp, rv) ==
    /\ pc = "idle"
    /\ LET r == IsconnectedResult(gp, rv)
       IN  /\ op' = "isconnected"
           /\ probe' = <<[getpeername |-> gp, recv |-> rv,
                          recv_called |-> r.recv]>>
           /\ pc' = IF r.ret = "RuntimeError" THEN "raised" ELSE "returned"
           /\ ret_bool' = IF r.ret = "RuntimeError" THEN "unset" ELSE r.ret
           /\ log' = log \o <<Rec("debug", "are we connected to", 0)>>
                         \o IF r.ret = "True"
                            THEN <<Rec("debug", "yes, we are connected", 0)>>
                            ELSE IF r.ret = "False"
                            THEN <<Rec("error", "connect failed", r.reason)>>
                            ELSE <<>>
    /\ UNCHANGED <<prefer_ipv6, resolved, addrinfo, idx, created, sock,
                   sockets, ret_sock, attempts>>

(* ------------------------- socket finalisation ------------------------ *)

\* socket ids some name still refers to: the running frame's sock, the
\* sockets list, connect()'s return value
Referenced == {sock, ret_sock} \cup Range(sockets)

Garbage == {s \in 1..Len(created) : created[s].open /\ s \notin Referenced}

\* Neither listen() nor connect() calls close().  Socket objects nothing
\* refers to any more are closed by the interpreter when it reclaims them,
\* which happens at a time of the interpreter's choosing.
Finalize ==
    /\ Garbage # {}
    /\ created' = [s \in 1..Len(created) |->
                      IF s \in Garbage THEN [created[s] EXCEPT !.open = FALSE]
                      ELSE created[s]]
    /\ UNCHANGED <<op, pc, prefer_ipv6, resolved, addrinfo, idx, sock,
                   sockets, ret_sock, ret_bool, attempts, probe, log>>

(* --------------------------- specification ---------------------------- *)

Next ==
    \/ \E outcome \in ResolverOutcomes, answer \in AinfoSeqs(MaxListen) :
            ListenCall(outcome, answer)
    \/ \E f \in Families : \E e \in ListenEnv(f) : ListenTry(e)
    \/ ListenReturn
    \/ \E prefer \in BOOLEAN, outcome \in ResolverOutcomes,
          answer \in AinfoSeqs(MaxConnect) :
            ConnectCall(prefer, outcome, answer)
    \/ \E e \in ConnectEnv : ConnectTry(e)
    \/ ConnectExhausted
    \/ \E gp \in PeernameOutcomes, rv \in RecvOutcomes : Isconnected(gp, rv)
    \/ Finalize

Spec == Init /\ [][Next]_vars

(* ------------------------------ claims -------------------------------- *)

OpenSockets == {s \in 1..Len(created) : created[s].open}

IsWarning(r) == r.level = "warning"

\* the candidate's connect_ex returned a code of the in-progress family
InProgressAttempt(a) ==
    a.env.fail = "none" /\ a.env.code \in {0, EINPROGRESS, EWOULDBLOCK, EAGAIN}

\* every call made for the candidate in listen() worked (a missing
\* IPV6_V6ONLY constant means the call is not made)
AllStepsWorked(a) == a.env.fail = "none" /\ a.env.v6only # "socket.error"

AttemptSock(a) == a.sock

SocksOf(as) == [i \in 1..Len(as) |-> AttemptSock(as[i])]

\* C1: when listen or connect returns, the sockets the call created that are
\* still open are exactly the sockets it returns (every discarded candidate
\* socket has been closed).
C1_OpenEqualsReturned ==
    (pc = "returned" /\ op \in {"listen", "connect"}) =>
        OpenSockets = (IF op = "listen" THEN Range(sockets)
                       ELSE {ret_sock} \ {None})

\* C2: listen tries every candidate once, in order, whatever failed before,
\* and its list holds exactly the sockets of the candidates whose every
\* step worked, each bound and listening.
C2_ListenPartialFailure ==
    op = "listen" =>
        /\ Len(attempts) <= Len(addrinfo)
        /\ \A i \in 1..Len(attempts) : attempts[i].ainfo = addrinfo[i]
        /\ pc = "listen" => Len(attempts) = idx - 1
        /\ pc = "returned" => Len(attempts) = Len(addrinfo)
        /\ sockets = SocksOf(SelectSeq(attempts, AllStepsWorked))
        /\ \A i \in 1..Len(sockets) :
              /\ sockets[i] \in 1..Len(created)
              /\ created[sockets[i]].open
              /\ created[sockets[i]].bound
              /\ created[sockets[i]].listening
              /\ created[sockets[i]].nonblocking

C2_Witness ==
    /\ op = "listen"
    /\ pc = "returned"
    /\ Len(attempts) = 3
    /\ attempts[1].env.fail = "none" /\ attempts[1].env.v6only = "ok"
    /\ attempts[2].env.fail = "bind"
    /\ attempts[3].env.fail = "none" /\ attempts[3].env.v6only = "ok"
    /\ Len(sockets) = 2

\* C3: connect tries the candidates one at a time in trial order and returns
\* the socket of the first one whose connect_ex code is in the in-progress
\* set; nothing is created for a later candidate.
C3_ConnectStopsAtFirstSuccess ==
    op = "connect" =>
        /\ Len(attempts) <= Len(addrinfo)
        /\ \A i \in 1..Len(attempts) :
              /\ attempts[i].ainfo = addrinfo[i]
              /\ InProgressAttempt(attempts[i]) =>
                    /\ i = Len(attempts)
                    /\ pc = "returned"
                    /\ ret_sock = attempts[i].sock
                    /\ ret_sock # None
        /\ \A s \in 1..Len(created) :
              \E i \in 1..Len(attempts) :
                  attempts[i].sock = s /\ created[s].addr = attempts[i].ainfo.addr
        /\ ret_sock # None =>
              /\ pc = "returned"
              /\ ret_sock = attempts[Len(attempts)].sock
              /\ \A i \in 1..(Len(attempts) - 1) : ~InProgressAttempt(attempts[i])

C3_Witness ==
    /\ op = "connect"
    /\ pc = "returned"
    /\ ret_sock # None
    /\ Len(attempts) = 2
    /\ Len(addrinfo) = 4
    /\ attempts[1].env.code = ECONNREFUSED
    /\ attempts[2].env.code = EINPROGRESS

\* C4: connect returns None exactly when no candidate initiated: the
\* resolver failed or gave nothing, or every candidate was tried and failed.
C4_NoneIffNoCandidateInitiates ==
    (op = "connect" /\ pc = "returned") =>
        /\ ret_sock = None <=>
              \A i \in 1..Len(attempts) : ~InProgressAttempt(attempts[i])
        /\ ret_sock = None => Len(attempts) = Len(resolved)
        /\ resolved = <<>> => ret_sock = None

C4_Witness ==
    /\ op = "connect"
    /\ pc = "returned"
    /\ ret_sock = None
    /\ Len(resolved) = 3
    /\ Len(attempts) = 3
    /\ attempts[1].env.fail = "socket"
    /\ attempts[2].env.code = ECONNREFUSED
    /\ attempts[3].env.fail = "connect_ex"

FamilyOfSock(s) == created[s].family

\* C5 as stated: listen tries every IPv4 candidate before any IPv6 candidate
\* and lists IPv4 sockets before IPv6 sockets.
C5_ListenIPv4First ==
    op = "listen" =>
        /\ \A i, j \in 1..Len(attempts) :
              (i < j) => ~(attempts[i].ainfo.family = AF_INET6
                           /\ attempts[j].ainfo.family = AF_INET)
        /\ \A i, j \in 1..Len(sockets) :
              (i < j) => ~(FamilyOfSock(sockets[i]) = AF_INET6
                           /\ FamilyOfSock(sockets[j]) = AF_INET)

\* C5 amended: listen tries every IPv6 candidate before any IPv4 candidate
\* and lists IPv6 sockets before IPv4 sockets.
C5_ListenIPv6First ==
    op = "listen" =>
        /\ \A i, j \in 1..Len(attempts) :
              (i < j) => ~(attempts[i].ainfo.family = AF_INET
                           /\ attempts[j].ainfo.family = AF_INET6)
        /\ \A i, j \in 1..Len(sockets) :
              (i < j) => ~(FamilyOfSock(sockets[i]) = AF_INET
                           /\ FamilyOfSock(sockets[j]) = AF_INET6)

C5_Witness ==
    /\ op = "listen"
    /\ pc = "returned"
    /\ Len(resolved) = 3
    /\ resolved[1].family = AF_INET
    /\ resolved[2].family = AF_INET6
    /\ resolved[3].family = AF_INET
    /\ Len(sockets) = 3
    /\ FamilyOfSock(sockets[1]) = AF_INET6
    /\ FamilyOfSock(sockets[2]) = AF_INET

\* C6: neither listen nor connect ends by raising to its caller, whatever
\* the resolver and the per-candidate calls do.
C6_NoExceptionCrossesBoundary ==
    ~(pc = "raised" /\ op \in {"listen", "connect"})

IsV4(ainfo) == ainfo.family = AF_INET

IsV6(ainfo) == ainfo.family = AF_INET6

\* C7: connect's trial order is the resolver's answer with one family moved
\* in front of the other (IPv6 first iff prefer_ipv6), each family in the
\* resolver's order, and candidates are tried in that order.
C7_ConnectStableFamilyOrder ==
    op = "connect" =>
        /\ addrinfo = (IF prefer_ipv6
                       THEN SelectSeq(resolved, IsV6) \o SelectSeq(resolved, IsV4)
                       ELSE SelectSeq(resolved, IsV4) \o SelectSeq(resolved, IsV6))
        /\ Len(attempts) <= Len(addrinfo)
        /\ \A i \in 1..Len(attempts) : attempts[i].ainfo = addrinfo[i]

C7_Witness ==
    /\ op = "connect"
    /\ prefer_ipv6
    /\ Len(resolved) = 4
    /\ resolved[1].family = AF_INET
    /\ resolved[2].family = AF_INET6
    /\ resolved[3].family = AF_INET
    /\ resolved[4].family = AF_INET6
    /\ Len(attempts) = 4
    /\ [i \in 1..4 |-> attempts[i].ainfo.addr] = <<2, 4, 1, 3>>

LastLog == log[Len(log)]

\* C8: isconnected returns True when getpeername answers, without calling
\* recv; returns False after logging the error when getpeername fails with
\* ENOTCONN or EINVAL and recv fails; never returns True when getpeername
\* failed.
C8_IsconnectedTrueAndFalse ==
    op = "isconnected" =>
        /\ probe[1].getpeername = 0 =>
              /\ pc = "returned"
              /\ ret_bool = "True"
              /\ ~probe[1].recv_called
        /\ (probe[1].getpeername \in {ENOTCONN, EINVAL} /\ probe[1].recv.err # 0) =>
              /\ pc = "returned"
              /\ ret_bool = "False"
              /\ probe[1].recv_called
              /\ LastLog = Rec("error", "connect failed", probe[1].recv.err)
        /\ ret_bool = "True" => probe[1].getpeername = 0

C8_Witness ==
    /\ op = "isconnected"
    /\ probe[1].getpeername = EINVAL
    /\ probe[1].recv.err = ECONNREFUSED
    /\ ret_bool = "False"

\* C9: isconnected raises RuntimeError exactly when getpeername failed with
\* ENOTCONN or EINVAL and recv did not fail (data or empty); every other
\* getpeername failure ends in a False return.
C9_IsconnectedInternalError ==
    op = "isconnected" =>
        /\ pc = "raised" <=>
              (probe[1].getpeername \in {ENOTCONN, EINVAL} /\ probe[1].recv.err = 0)
        /\ pc = "raised" => ret_bool = "unset"
        /\ (probe[1].getpeername # 0 /\ pc # "raised") =>
              (pc = "returned" /\ ret_bool = "False")

C9_Witness ==
    /\ op = "isconnected"
    /\ pc = "raised"
    /\ probe[1].getpeername = ENOTCONN
    /\ probe[1].recv = [err |-> 0, nbytes |-> 0]

\* the candidate's only trouble is that IPV6_V6ONLY cannot be set
OnlyV6onlyUnsupported(a) ==
    /\ a.ainfo.family = AF_INET6
    /\ a.env.v6only \in {"AttributeError", "socket.error"}
    /\ a.env.fail = "none"

\* C10: an IPv6 candidate on which IPV6_V6ONLY cannot be set (constant
\* missing, or setsockopt rejected) is not failed for it: nothing is logged
\* as a warning, bind and listen are called, and its socket is returned.
C10_V6onlyUnsupportedIgnored ==
    op = "listen" =>
        /\ \A i \in 1..Len(attempts) :
              OnlyV6onlyUnsupported(attempts[i]) =>
                  /\ attempts[i].sock \in Range(sockets)
                  /\ created[attempts[i].sock].bound
                  /\ created[attempts[i].sock].listening
        /\ Len(SelectSeq(log, IsWarning)) =
              Cardinality({i \in 1..Len(attempts) : attempts[i].env.fail # "none"})
====
